---- MODULE Spec2Model ----
(***************************************************************************)
(* A model of notes_literature.py: the store of paper entries kept in a    *)
(* JSON file, the Word document regenerated from it, the interactive       *)
(* prompts of add_entry and modify_abstract, and the menu loop of main.    *)
(*                                                                         *)
(* A Python str is a sequence of one-character strings; a line read by     *)
(* input() is such a sequence.  A Python list is a sequence (Python index  *)
(* i is index i+1 here).  A Python dict is the sequence of its items in    *)
(* insertion order, each item a record [key, val].                         *)
(***************************************************************************)
EXTENDS Integers, Sequences, FiniteSets, TLC

VARIABLES
    pc,             \* where the program waits for its next line of input
    data,           \* main: data, the in-memory store
    file,           \* the content of DATA_FILE
    doc,            \* the content of DOC_FILE
    inp,            \* what the last step read from standard input
    out,            \* the message the last step printed ("" if none)
    topic_choice,   \* add_entry: topic_choice
    title,          \* add_entry: title
    authors,        \* add_entry: authors
    year,           \* add_entry: year
    journal,        \* add_entry: journal
    query_authors_list, \* modify_abstract: query_authors_list
    query_year,     \* modify_abstract: query_year
    matches,        \* modify_abstract: matches, as (topic, index) pairs
    chosen          \* modify_abstract: chosen, as a (topic, index) pair

vars == <<pc, data, file, doc, inp, out, topic_choice, title, authors, year,
          journal, query_authors_list, query_year, matches, chosen>>

-----------------------------------------------------------------------------
(* Bounds of the model. *)

\* the menu offers option 1 only while the store holds fewer entries
MaxEntries == 2

-----------------------------------------------------------------------------
(* Python str methods. *)

Whitespace == {" ", "\t", "\n"}

UpperChars == <<"A","B","C","D","E","F","G","H","I","J","K","L","M",
                "N","O","P","Q","R","S","T","U","V","W","X","Y","Z">>
LowerChars == <<"a","b","c","d","e","f","g","h","i","j","k","l","m",
                "n","o","p","q","r","s","t","u","v","w","x","y","z">>
Digits == <<"0","1","2","3","4","5","6","7","8","9">>

IndexIn(c, chars) ==
    IF \E i \in DOMAIN chars : chars[i] = c
    THEN CHOOSE i \in DOMAIN chars : chars[i] = c
    ELSE 0

\* str.lower()
LowerChar(c) == IF IndexIn(c, UpperChars) # 0 THEN LowerChars[IndexIn(c, UpperChars)] ELSE c
Lower(s) == [i \in DOMAIN s |-> LowerChar(s[i])]

\* str.upper()
UpperChar(c) == IF IndexIn(c, LowerChars) # 0 THEN UpperChars[IndexIn(c, LowerChars)] ELSE c
Upper(s) == [i \in DOMAIN s |-> UpperChar(s[i])]

RECURSIVE LStrip(_)
LStrip(s) == IF s # <<>> /\ Head(s) \in Whitespace THEN LStrip(Tail(s)) ELSE s

RECURSIVE RStrip(_)
RStrip(s) ==
    IF s # <<>> /\ s[Len(s)] \in Whitespace THEN RStrip(SubSeq(s, 1, Len(s) - 1)) ELSE s

\* str.strip()
Strip(s) == RStrip(LStrip(s))

\* str.split(sep) for a one-character sep: the pieces between the separators,
\* empty pieces included; "".split(sep) is [""].
RECURSIVE SplitFrom(_, _, _)
SplitFrom(s, sep, cur) ==
    IF s = <<>> THEN <<cur>>
    ELSE IF Head(s) = sep THEN <<cur>> \o SplitFrom(Tail(s), sep, <<>>)
    ELSE SplitFrom(Tail(s), sep, Append(cur, Head(s)))

Split(s, sep) == SplitFrom(s, sep, <<>>)

\* str.split() with no argument: the maximal runs of non-whitespace.
RECURSIVE SplitWsFrom(_, _)
SplitWsFrom(s, cur) ==
    IF s = <<>> THEN (IF cur = <<>> THEN <<>> ELSE <<cur>>)
    ELSE IF Head(s) \in Whitespace
         THEN (IF cur = <<>> THEN <<>> ELSE <<cur>>) \o SplitWsFrom(Tail(s), <<>>)
    ELSE SplitWsFrom(Tail(s), Append(cur, Head(s)))

SplitWs(s) == SplitWsFrom(s, <<>>)

\* sep.join(parts)
RECURSIVE Join(_, _)
Join(sep, parts) ==
    IF parts = <<>> THEN <<>>
    ELSE IF Len(parts) = 1 THEN parts[1]
    ELSE parts[1] \o sep \o Join(sep, Tail(parts))

StartsWith(s, p) == Len(s) >= Len(p) /\ SubSeq(s, 1, Len(p)) = p

\* str.replace(old, new) for a non-empty old: left to right, not overlapping.
RECURSIVE Replace(_, _, _)
Replace(s, old, new) ==
    IF s = <<>> THEN <<>>
    ELSE IF StartsWith(s, old)
         THEN new \o Replace(SubSeq(s, Len(old) + 1, Len(s)), old, new)
    ELSE <<Head(s)>> \o Replace(Tail(s), old, new)

\* The digits of int(): a run of decimal digits, single underscores allowed
\* between them.
IsDigitRun(s) ==
    /\ s # <<>>
    /\ \A i \in DOMAIN s : IndexIn(s[i], Digits) # 0 \/ s[i] = "_"
    /\ s[1] # "_" /\ s[Len(s)] # "_"
    /\ \A i \in 1..(Len(s) - 1) : ~(s[i] = "_" /\ s[i + 1] = "_")

RECURSIVE DigitsValue(_, _)
DigitsValue(s, acc) ==
    IF s = <<>> THEN acc
    ELSE IF Head(s) = "_" THEN DigitsValue(Tail(s), acc)
    ELSE DigitsValue(Tail(s), 10 * acc + (IndexIn(Head(s), Digits) - 1))

\* int(s): ok is FALSE where Python raises ValueError.
ParseInt(s) ==
    LET t == Strip(s)
        signed == t # <<>> /\ t[1] \in {"+", "-"}
        body == IF signed THEN Tail(t) ELSE t
    IN  IF IsDigitRun(body)
        THEN [ok |-> TRUE,
              val |-> IF signed /\ t[1] = "-" THEN 0 - DigitsValue(body, 0)
                      ELSE DigitsValue(body, 0)]
        ELSE [ok |-> FALSE, val |-> 0]

-----------------------------------------------------------------------------
(* The module's globals. *)

\* topics, in the order of the dict literal
topics == <<
    [key |-> <<"1">>, val |-> "Transition Economies"],
    [key |-> <<"2">>, val |-> "Russian Banking"],
    [key |-> <<"3">>, val |-> "Disclosure"],
    [key |-> <<"4">>, val |-> "Market Discipline"],
    [key |-> <<"5">>, val |-> "Banking Regulation"] >>

-----------------------------------------------------------------------------
(* Python dict and list operations. *)

\* k in d
DictHas(d, k) == \E i \in DOMAIN d : d[i].key = k

DictPos(d, k) == CHOOSE i \in DOMAIN d : d[i].key = k

\* d[k]
DictGet(d, k) == d[DictPos(d, k)].val

\* d[k] = v: an existing key keeps its place, a new key goes last
DictSet(d, k, v) ==
    IF DictHas(d, k)
    THEN [d EXCEPT ![DictPos(d, k)].val = v]
    ELSE Append(d, [key |-> k, val |-> v])

\* d.keys()
DictKeys(d) == [i \in DOMAIN d |-> d[i].key]

RECURSIVE Flatten(_)
Flatten(seqs) == IF seqs = <<>> THEN <<>> ELSE Head(seqs) \o Flatten(Tail(seqs))

\* SortedInsert with the item put before the items of the same key
RECURSIVE SortedInsertBeforeTies(_, _)
SortedInsertBeforeTies(sorted, x) ==
    IF sorted = <<>> THEN <<x>>
    ELSE IF Head(sorted).k < x.k
         THEN <<Head(sorted)>> \o SortedInsertBeforeTies(Tail(sorted), x)
    ELSE <<x>> \o sorted

\* sorted(items, key=...) on items paired with their keys: [k |-> key, v |-> item].
\* Python's sort is stable: an item goes after every item whose key is not greater.
RECURSIVE SortedInsert(_, _)
SortedInsert(sorted, x) ==
    IF sorted = <<>> THEN <<x>>
    ELSE IF Head(sorted).k <= x.k THEN <<Head(sorted)>> \o SortedInsert(Tail(sorted), x)
    ELSE <<x>> \o sorted

RECURSIVE SortedFrom(_, _)
SortedFrom(sorted, rest) ==
    IF rest = <<>> THEN sorted
    ELSE SortedFrom(SortedInsert(sorted, Head(rest)), Tail(rest))

Sorted(keyed) == [i \in DOMAIN keyed |-> SortedFrom(<<>>, keyed)[i].v]

-----------------------------------------------------------------------------
(* The store file. *)

\* A JSON text is the sequence of its tokens: a member name of the top-level
\* object opens the list of that topic, and each object of the list follows
\* with its five members.
KeyToken(k) ==
    [t |-> "key", key |-> k,
     title |-> <<>>, authors |-> <<>>, year |-> 0, journal |-> <<>>, abstract |-> <<>>]

EntryToken(e) ==
    [t |-> "entry", key |-> <<>>,
     title |-> e.title, authors |-> e.authors, year |-> e.year,
     journal |-> e.journal, abstract |-> e.abstract]

\* json.dump(data, f, indent=4)
Dump(d) ==
    Flatten([i \in DOMAIN d |->
        <<KeyToken(d[i].key)>> \o [j \in DOMAIN d[i].val |-> EntryToken(d[i].val[j])]])

TokenEntry(tok) ==
    [title |-> tok.title, authors |-> tok.authors, year |-> tok.year,
     journal |-> tok.journal, abstract |-> tok.abstract]

\* json.load(f): a member name starts an empty list under that key (a repeated
\* name replaces the earlier value), an object is appended to the open list.
RECURSIVE LoadFrom(_, _, _)
LoadFrom(toks, d, open) ==
    IF toks = <<>> THEN d
    ELSE IF Head(toks).t = "key"
         THEN LoadFrom(Tail(toks), DictSet(d, Head(toks).key, <<>>), Head(toks).key)
    ELSE LoadFrom(Tail(toks),
                  DictSet(d, open, Append(DictGet(d, open), TokenEntry(Head(toks)))),
                  open)

Load(toks) == LoadFrom(toks, <<>>, <<>>)

NoFile == [exists |-> FALSE, text |-> <<>>]

\* load_data()
load_data(f) == IF f.exists THEN Load(f.text) ELSE <<>>

\* save_data(data): the new content of DATA_FILE
save_data(d) == [exists |-> TRUE, text |-> Dump(d)]

-----------------------------------------------------------------------------
(* The document. *)

\* A paragraph of the document, by the values its text is formatted from:
\*   heading   "Topic {topic}: {name}"
\*   entry     "{n}. {authors} ({year}) {journal}: {title}"
\*   abstract  text, indented
\*   blank     ""
Paragraph(kind, topic, name, n, e, text, indent) ==
    [kind |-> kind, topic |-> topic, name |-> name, n |-> n,
     authors |-> e.authors, year |-> e.year, journal |-> e.journal, title |-> e.title,
     text |-> text, indent |-> indent]

NoEntry == [title |-> <<>>, authors |-> <<>>, year |-> 0, journal |-> <<>>, abstract |-> <<>>]

Heading(topic_num, topic_name) == Paragraph("heading", topic_num, topic_name, 0, NoEntry, <<>>, FALSE)
EntryLine(idx, entry) == Paragraph("entry", <<>>, "", idx, entry, <<>>, FALSE)
AbstractBlock(entry) == Paragraph("abstract", <<>>, "", 0, NoEntry, entry.abstract, TRUE)
Blank == Paragraph("blank", <<>>, "", 0, NoEntry, <<>>, FALSE)

\* sorted(topics.keys(), key=lambda x: int(x))
SortedTopicNums ==
    Sorted([i \in DOMAIN topics |-> [k |-> ParseInt(topics[i].key).val, v |-> topics[i].key]])

\* sorted(data[topic_num], key=lambda x: x['year'])
SortedEntries(entries) ==
    Sorted([i \in DOMAIN entries |-> [k |-> entries[i].year, v |-> entries[i]]])

\* TopicSection without the test that the topic's list is not empty
TopicSectionOfAnyList(d, topic_num) ==
    IF DictHas(d, topic_num)
    THEN LET entries == SortedEntries(DictGet(d, topic_num))
         IN  <<Heading(topic_num, DictGet(topics, topic_num))>>
             \o Flatten([idx \in DOMAIN entries |->
                    <<EntryLine(idx, entries[idx]), AbstractBlock(entries[idx])>>])
             \o <<Blank>>
    ELSE <<>>

\* the body of the loop over the topics, for one topic
TopicSection(d, topic_num) ==
    IF DictHas(d, topic_num) /\ DictGet(d, topic_num) # <<>>
    THEN LET entries == SortedEntries(DictGet(d, topic_num))
         IN  <<Heading(topic_num, DictGet(topics, topic_num))>>
             \o Flatten([idx \in DOMAIN entries |->
                    <<EntryLine(idx, entries[idx]), AbstractBlock(entries[idx])>>])
             \o <<Blank>>
    ELSE <<>>

NoDoc == [exists |-> FALSE, paragraphs |-> <<>>]

\* update_word_document(data): the new content of DOC_FILE
update_word_document(d) ==
    [exists |-> TRUE,
     paragraphs |-> Flatten([i \in DOMAIN SortedTopicNums |-> TopicSection(d, SortedTopicNums[i])])]

-----------------------------------------------------------------------------
(* Reading the abstract. *)

EndLine(line) == line # <<>> /\ Upper(Strip(line)) = <<"E", "N", "D">>

\* the loop of get_multiline_abstract over the lines typed: every line before
\* the first END line is kept, the empty ones too
RECURSIVE LinesRead(_)
LinesRead(typed) ==
    IF typed = <<>> \/ EndLine(Head(typed)) THEN <<>>
    ELSE <<Head(typed)>> \o LinesRead(Tail(typed))

ParagraphMark == <<"\\", "_", "_">>

\* AbstractOf with the paragraph marks replaced before the whitespace is collapsed
AbstractOfMarkFirst(lines) ==
    LET joined == Strip(Join(<<" ">>, lines))
        marked == Replace(joined, ParagraphMark, <<"\n">>)
    IN  Join(<<" ">>, SplitWs(marked))

\* the abstract get_multiline_abstract makes of the lines it has read ("" is
\* the one it rejects)
AbstractOf(lines) ==
    LET joined == Strip(Join(<<" ">>, lines))
        single == Join(<<" ">>, SplitWs(joined))
    IN  Replace(single, ParagraphMark, <<"\n">>)

-----------------------------------------------------------------------------
(* Searching the store. *)

RECURSIVE SelectNonEmptyStripped(_)
SelectNonEmptyStripped(parts) ==
    IF parts = <<>> THEN <<>>
    ELSE IF Strip(Head(parts)) # <<>>
         THEN <<Lower(Strip(Head(parts)))>> \o SelectNonEmptyStripped(Tail(parts))
    ELSE SelectNonEmptyStripped(Tail(parts))

\* [a.strip().lower() for a in s.split(';') if a.strip()]
AuthorList(s) == SelectNonEmptyStripped(Split(s, ";"))

InList(x, list) == \E i \in DOMAIN list : list[i] = x

\* EntryMatches with the authors field compared whole
EntryMatchesWholeField(entry, qlist, qyear) ==
    /\ entry.year = qyear
    /\ InList(Lower(Strip(entry.authors)), qlist)

\* the test of the search loop on one entry
EntryMatches(entry, qlist, qyear) ==
    /\ entry.year = qyear
    /\ \E i \in DOMAIN qlist : InList(qlist[i], AuthorList(entry.authors))

RECURSIVE SelectMatching(_, _, _, _, _)
SelectMatching(topic, entries, idx, qlist, qyear) ==
    IF idx > Len(entries) THEN <<>>
    ELSE (IF EntryMatches(entries[idx], qlist, qyear) THEN <<<<topic, idx>>>> ELSE <<>>)
         \o SelectMatching(topic, entries, idx + 1, qlist, qyear)

\* matches, after the loop over data.items()
FindMatches(d, qlist, qyear) ==
    Flatten([i \in DOMAIN d |-> SelectMatching(d[i].key, d[i].val, 1, qlist, qyear)])

-----------------------------------------------------------------------------
(* What the user may type. *)

MenuInputs == { <<"1">>, <<"2", " ">>, <<"3">>, <<"9">> }

TopicInputs == { <<"2">>, <<" ", "1">>, <<"7">> }

TitleInputs == { <<" ">>, <<"A", " ">> }

AuthorsInputs ==
    { <<>>,
      <<"S", "M", "I", "T", "H", " ", ";", "L", "e", "e">>,
      <<" ", "s", "m", "i", "t", "h">>,
      <<";">> }

YearInputs == { <<"2", "0", "2", "0">>, <<" ", "2", "0", "1", "9">>, <<"x">> }

JournalInputs == { <<>>, <<"J">> }

ParaOne == <<"P", "a", "r", "a", " ", "o", "n", "e", ".">>
ParaTwo == <<"P", "a", "r", "a", " ", "t", "w", "o", ".">>
END == <<"E", "N", "D">>

\* each is what is typed up to and including the first END line
AbstractInputs ==
    { << <<>>, END >>,
      << ParaOne, <<"_", "_">>, ParaTwo, END >>,
      << ParaOne, ParagraphMark, ParaTwo, <<" ", "e", "n", "d">> >> }

QueryInputs ==
    { <<>>,
      <<"S", "m", "i", "t", "h">>,
      <<" ", "l", "e", "e", " ", ";", "B", "o">> }

SelectionInputs == { <<"1">>, <<" ", "2">>, <<"3">>, <<"x">> }

\* the stores DATA_FILE may hold when the program starts
OldEntry ==
    [title |-> <<"O">>, authors |-> <<"S", "m", "i", "t", "h">>, year |-> 2020,
     journal |-> <<"J">>, abstract |-> <<"o", "l", "d">>]

InitStores ==
    { <<>>,
      << [key |-> <<"3">>, val |-> <<>>], [key |-> <<"2">>, val |-> <<OldEntry>>] >> }

InitFiles == { NoFile } \cup { save_data(d) : d \in InitStores }

-----------------------------------------------------------------------------
(* The program. *)

RECURSIVE TotalEntries(_)
TotalEntries(d) == IF d = <<>> THEN 0 ELSE Len(Head(d).val) + TotalEntries(Tail(d))

\* the locals of add_entry and modify_abstract, outside the call
NoLocals ==
    /\ topic_choice' = <<>>
    /\ title' = <<>>
    /\ authors' = <<>>
    /\ year' = 0
    /\ journal' = <<>>
    /\ query_authors_list' = <<>>
    /\ query_year' = 0
    /\ matches' = <<>>
    /\ chosen' = <<>>

AddLocals == <<topic_choice, title, authors, year, journal>>
ModLocals == <<query_authors_list, query_year, matches, chosen>>
Files == <<data, file, doc>>

Init ==
    /\ pc = "menu"
    /\ file \in InitFiles
    /\ data = load_data(file)
    /\ doc = NoDoc
    /\ inp = <<>>
    /\ out = "=== Academic Paper Summarization and Documentation Tool ==="
    /\ topic_choice = <<>>
    /\ title = <<>>
    /\ authors = <<>>
    /\ year = 0
    /\ journal = <<>>
    /\ query_authors_list = <<>>
    /\ query_year = 0
    /\ matches = <<>>
    /\ chosen = <<>>

\* MenuNext without the break on "3"
MenuNextNoBreak(choice) ==
    CASE choice = <<"1">> -> "add_topic"
      [] choice = <<"2">> -> "mod_authors"
      [] OTHER -> "menu"

\* main: where the dispatch on choice leads
MenuNext(choice) ==
    CASE choice = <<"1">> -> "add_topic"
      [] choice = <<"2">> -> "mod_authors"
      [] choice = <<"3">> -> "done"
      [] OTHER -> "menu"

\* main: what the dispatch on choice prints first
MenuOut(choice) ==
    CASE choice = <<"1">> -> "Please provide the details for the new paper entry:"
      [] choice = <<"2">> -> "=== Modify Paper Abstract ==="
      [] choice = <<"3">> -> "Exiting. Your document has been updated."
      [] OTHER -> "Invalid choice. Please try again."

\* one turn of the loop of main, up to the first input() of what it calls
Menu ==
    /\ pc = "menu"
    /\ \E line \in MenuInputs :
        LET choice == Strip(line) IN
        /\ choice = <<"1">> => TotalEntries(data) < MaxEntries
        /\ inp' = line
        /\ pc' = MenuNext(choice)
        /\ out' = MenuOut(choice)
    /\ UNCHANGED <<Files, AddLocals, ModLocals>>

\* get_topic_choice: one turn of its loop
AddTopic ==
    /\ pc = "add_topic"
    /\ \E line \in TopicInputs :
        LET choice == Strip(line) IN
        /\ inp' = line
        /\ IF DictHas(topics, choice)
           THEN /\ topic_choice' = choice
                /\ pc' = "add_title"
                /\ out' = ""
           ELSE /\ out' = "Invalid topic selection. Please try again."
                /\ UNCHANGED <<pc, topic_choice>>
    /\ UNCHANGED <<Files, title, authors, year, journal, ModLocals>>

\* add_entry: one input of the title
AddTitle ==
    /\ pc = "add_title"
    /\ \E line \in TitleInputs :
        /\ inp' = line
        /\ IF Strip(line) = <<>>
           THEN /\ out' = "Title cannot be empty. Please enter a valid title."
                /\ UNCHANGED <<pc, title>>
           ELSE /\ title' = Strip(line)
                /\ pc' = "add_authors"
                /\ out' = ""
    /\ UNCHANGED <<Files, topic_choice, authors, year, journal, ModLocals>>

\* add_entry: one input of the authors
AddAuthors ==
    /\ pc = "add_authors"
    /\ \E line \in AuthorsInputs :
        /\ inp' = line
        /\ IF Strip(line) = <<>>
           THEN /\ out' = "Authors cannot be empty. Please enter valid author names."
                /\ UNCHANGED <<pc, authors>>
           ELSE /\ authors' = Strip(line)
                /\ pc' = "add_year"
                /\ out' = ""
    /\ UNCHANGED <<Files, topic_choice, title, year, journal, ModLocals>>

\* add_entry: one turn of the loop that reads the year
AddYear ==
    /\ pc = "add_year"
    /\ \E line \in YearInputs :
        LET parsed == ParseInt(Strip(line)) IN
        /\ inp' = line
        /\ IF parsed.ok
           THEN /\ year' = parsed.val
                /\ pc' = "add_journal"
                /\ out' = ""
           ELSE /\ out' = "Invalid year. Please enter a numeric value for the year."
                /\ UNCHANGED <<pc, year>>
    /\ UNCHANGED <<Files, topic_choice, title, authors, journal, ModLocals>>

\* AddJournal with the result of the call made after a rejection dropped
AddJournalNoReturn ==
    /\ pc = "add_journal"
    /\ \E line \in JournalInputs :
        /\ inp' = line
        /\ IF Strip(line) = <<>>
           THEN /\ out' = "Journal name cannot be empty. Please try again."
                /\ UNCHANGED <<pc, journal>>
           ELSE /\ journal' = IF out = "Journal name cannot be empty. Please try again."
                              THEN <<>>
                              ELSE Strip(line)
                /\ pc' = "add_abstract"
                /\ out' = ""
    /\ UNCHANGED <<Files, topic_choice, title, authors, year, ModLocals>>

\* get_journal_choice: one call
AddJournal ==
    /\ pc = "add_journal"
    /\ \E line \in JournalInputs :
        /\ inp' = line
        /\ IF Strip(line) = <<>>
           THEN /\ out' = "Journal name cannot be empty. Please try again."
                /\ UNCHANGED <<pc, journal>>
           ELSE /\ journal' = Strip(line)
                /\ pc' = "add_abstract"
                /\ out' = ""
    /\ UNCHANGED <<Files, topic_choice, title, authors, year, ModLocals>>

\* add_entry: the entry dictionary
NewEntry(t, a, y, j, abstract) ==
    [title |-> t, authors |-> a, year |-> y, journal |-> j, abstract |-> abstract]

\* AppendEntry with the topic's list replaced by a list of the new entry
AppendEntryAlone(d, topic, entry) == DictSet(d, topic, <<entry>>)

\* add_entry: data after the entry is added to its topic
AppendEntry(d, topic, entry) ==
    LET d1 == IF ~DictHas(d, topic) THEN DictSet(d, topic, <<>>) ELSE d
    IN  DictSet(d1, topic, Append(DictGet(d1, topic), entry))

\* get_multiline_abstract: the abstract is empty, and the call starts again
AbstractRejected ==
    /\ out' = "Abstract cannot be empty. Please try again."
    /\ UNCHANGED <<pc, Files, AddLocals, ModLocals>>

\* AddStore with the file saved before the entry is added
AddStoreSaveFirst(abstract) ==
    /\ file' = save_data(data)
    /\ data' = AppendEntry(data, topic_choice,
                           NewEntry(title, authors, year, journal, abstract))
    /\ doc' = update_word_document(data')
    /\ out' = "Entry added successfully and document updated!"
    /\ pc' = "menu"
    /\ NoLocals

\* add_entry: from the entry dictionary to the return
AddStore(abstract) ==
    /\ data' = AppendEntry(data, topic_choice,
                           NewEntry(title, authors, year, journal, abstract))
    /\ file' = save_data(data')
    /\ doc' = update_word_document(data')
    /\ out' = "Entry added successfully and document updated!"
    /\ pc' = "menu"
    /\ NoLocals

\* add_entry: one call of get_multiline_abstract and, once it returns, the
\* rest of add_entry
AddAbstract ==
    /\ pc = "add_abstract"
    /\ \E typed \in AbstractInputs :
        LET abstract == AbstractOf(LinesRead(typed)) IN
        /\ inp' = typed
        /\ IF abstract = <<>> THEN AbstractRejected ELSE AddStore(abstract)

\* modify_abstract: one input of the author names to search for
ModAuthors ==
    /\ pc = "mod_authors"
    /\ \E line \in QueryInputs :
        /\ inp' = line
        /\ IF Strip(line) = <<>>
           THEN /\ out' = "Author(s) input cannot be empty."
                /\ UNCHANGED <<pc, query_authors_list>>
           ELSE /\ query_authors_list' = AuthorList(Strip(line))
                /\ pc' = "mod_year"
                /\ out' = ""
    /\ UNCHANGED <<Files, AddLocals, query_year, matches, chosen>>

\* modify_abstract: one turn of the loop that reads the year and, once the
\* year is read, the search and what follows it up to the next input()
ModYear ==
    /\ pc = "mod_year"
    /\ \E line \in YearInputs :
        LET parsed == ParseInt(Strip(line))
            found == FindMatches(data, query_authors_list, parsed.val)
        IN
        /\ inp' = line
        /\ IF ~parsed.ok
           THEN /\ out' = "Invalid year. Please enter a numeric value for the year."
                /\ UNCHANGED <<pc, AddLocals, ModLocals>>
           ELSE IF found = <<>>
           THEN /\ out' = "No matching paper found for the given author(s) and year."
                /\ pc' = "menu"
                /\ NoLocals
           ELSE IF Len(found) > 1
           THEN /\ out' = "Multiple matching papers found:"
                /\ pc' = "mod_select"
                /\ query_year' = parsed.val
                /\ matches' = found
                /\ UNCHANGED <<AddLocals, query_authors_list, chosen>>
           ELSE /\ out' = "Current abstract:"
                /\ pc' = "mod_abstract"
                /\ query_year' = parsed.val
                /\ matches' = found
                /\ chosen' = found[1]
                /\ UNCHANGED <<AddLocals, query_authors_list>>
    /\ UNCHANGED Files

\* modify_abstract: one turn of the loop that reads the selection
ModSelect ==
    /\ pc = "mod_select"
    /\ \E line \in SelectionInputs :
        LET parsed == ParseInt(Strip(line)) IN
        /\ inp' = line
        /\ IF ~parsed.ok
           THEN /\ out' = "Invalid selection. Please enter a numeric value."
                /\ UNCHANGED <<pc, chosen>>
           ELSE IF 1 <= parsed.val /\ parsed.val <= Len(matches)
           THEN /\ out' = "Current abstract:"
                /\ pc' = "mod_abstract"
                /\ chosen' = matches[parsed.val]
           ELSE /\ out' = "Selection out of range. Please try again."
                /\ UNCHANGED <<pc, chosen>>
    /\ UNCHANGED <<Files, AddLocals, query_authors_list, query_year, matches>>

\* SetAbstract with the place among the matches taken for the index in the topic
SetAbstractAtMatchNumber(d, where, new_abstract) ==
    LET topic == where[1]
        idx == CHOOSE m \in DOMAIN matches : matches[m] = where
    IN  DictSet(d, topic, [DictGet(d, topic) EXCEPT ![idx].abstract = new_abstract])

\* modify_abstract: data after data[topic][idx]["abstract"] = new_abstract
SetAbstract(d, where, new_abstract) ==
    LET topic == where[1]
        idx == where[2]
    IN  DictSet(d, topic, [DictGet(d, topic) EXCEPT ![idx].abstract = new_abstract])

\* modify_abstract: from the update of the chosen entry to the return
ModStore(new_abstract) ==
    /\ data' = SetAbstract(data, chosen, new_abstract)
    /\ file' = save_data(data')
    /\ doc' = update_word_document(data')
    /\ out' = "Abstract updated successfully and document updated!"
    /\ pc' = "menu"
    /\ NoLocals

\* modify_abstract: one call of get_multiline_abstract and, once it returns,
\* the rest of modify_abstract
ModAbstract ==
    /\ pc = "mod_abstract"
    /\ \E typed \in AbstractInputs :
        LET new_abstract == AbstractOf(LinesRead(typed)) IN
        /\ inp' = typed
        /\ IF new_abstract = <<>> THEN AbstractRejected ELSE ModStore(new_abstract)

Next ==
    \/ Menu
    \/ AddTopic
    \/ AddTitle
    \/ AddAuthors
    \/ AddYear
    \/ AddJournal
    \/ AddAbstract
    \/ ModAuthors
    \/ ModYear
    \/ ModSelect
    \/ ModAbstract

Spec == Init /\ [][Next]_vars

-----------------------------------------------------------------------------
(* Properties. *)

Range(seq) == { seq[i] : i \in DOMAIN seq }

Last(seq) == seq[Len(seq)]

AddedMessage == "Entry added successfully and document updated!"
UpdatedMessage == "Abstract updated successfully and document updated!"

AddPcs == {"add_topic", "add_title", "add_authors", "add_year", "add_journal", "add_abstract"}
ModPcs == {"mod_authors", "mod_year", "mod_select", "mod_abstract"}

\* the list of a topic in a store, empty when the store has no such key
EntriesOf(d, topic) == IF DictHas(d, topic) THEN DictGet(d, topic) ELSE <<>>

\* a step in which add_entry or modify_abstract returns having stored an abstract
AddReturns == pc = "add_abstract" /\ pc' = "menu"
ModReturns == pc = "mod_abstract" /\ pc' = "menu"

\* C1: a step changes the store, the data file or the document only by
\* returning to the menu from add_entry or modify_abstract, and at the end of
\* such a step the data file holds exactly the store and the document is the
\* one generated from that store.
C1_PersistedAfterMutation ==
    [][ Files' # Files =>
          /\ AddReturns \/ ModReturns
          /\ file'.exists
          /\ Load(file'.text) = data'
          /\ doc' = update_word_document(data') ]_vars

C1_Witness ==
    /\ pc = "menu"
    /\ out = UpdatedMessage
    /\ TotalEntries(data) = 2
    /\ file.exists /\ Load(file.text) = data
    /\ doc = update_word_document(data)

\* C2: when add_entry returns, reloading the store from the data file gives a
\* mapping in which the chosen topic's list is its earlier list (empty if the
\* topic was absent) followed by the record as collected, and in which every
\* other topic has the list it had.
C2_AddThenReload ==
    [][ AddReturns =>
          LET reloaded == load_data(file')
              record == [title |-> title, authors |-> authors, year |-> year,
                         journal |-> journal,
                         abstract |-> AbstractOf(LinesRead(inp'))]
          IN  /\ DictHas(reloaded, topic_choice)
              /\ DictGet(reloaded, topic_choice)
                    = EntriesOf(data, topic_choice) \o <<record>>
              /\ Range(DictKeys(reloaded)) = Range(DictKeys(data)) \cup {topic_choice}
              /\ \A k \in Range(DictKeys(data)) \ {topic_choice} :
                    DictGet(reloaded, k) = DictGet(data, k) ]_vars

C2_Witness ==
    /\ pc = "menu"
    /\ out = AddedMessage
    /\ DictHas(data, <<"1">>) /\ Len(DictGet(data, <<"1">>)) = 1
    /\ DictHas(data, <<"2">>) /\ DictGet(data, <<"2">>) = <<OldEntry>>
    /\ load_data(file) = data

\* the entries a document lists under the heading at paragraph h: the entry
\* lines that follow it, each with the abstract paragraph after it
RECURSIVE ListedFrom(_, _)
ListedFrom(paras, i) ==
    IF i + 1 > Len(paras) \/ paras[i].kind # "entry" \/ paras[i + 1].kind # "abstract"
    THEN <<>>
    ELSE << [n |-> paras[i].n,
             e |-> [title |-> paras[i].title, authors |-> paras[i].authors,
                    year |-> paras[i].year, journal |-> paras[i].journal,
                    abstract |-> paras[i + 1].text]] >>
         \o ListedFrom(paras, i + 2)

\* the entries a document lists under the heading of a topic
Listed(paras, topic) ==
    IF \E h \in DOMAIN paras : paras[h].kind = "heading" /\ paras[h].topic = topic
    THEN ListedFrom(paras,
            1 + CHOOSE h \in DOMAIN paras : paras[h].kind = "heading" /\ paras[h].topic = topic)
    ELSE <<>>

OfYear(entries, y) == SelectSeq(entries, LAMBDA e : e.year = y)

\* C3: in the document, every enumerated topic with entries lists all its
\* entries, in non-decreasing order of year, entries of the same year in the
\* order of the store, and each numbered by its place in that order.
C3_SortedByYearStable ==
    doc.exists =>
        \A i \in DOMAIN data :
            (data[i].val # <<>> /\ DictHas(topics, data[i].key)) =>
                LET listed == Listed(doc.paragraphs, data[i].key)
                    shown == [j \in DOMAIN listed |-> listed[j].e]
                IN  /\ Len(listed) = Len(data[i].val)
                    /\ \A j \in DOMAIN listed : listed[j].n = j
                    /\ \A j, k \in DOMAIN shown : j < k => shown[j].year <= shown[k].year
                    /\ \A y \in { e.year : e \in Range(data[i].val) } :
                          OfYear(shown, y) = OfYear(data[i].val, y)

C3_Witness ==
    /\ doc.exists
    /\ \E i \in DOMAIN data :
          /\ Len(data[i].val) = 2
          /\ data[i].val[1].year = data[i].val[2].year
          /\ data[i].val[1] # data[i].val[2]
          /\ Listed(doc.paragraphs, data[i].key)[1].e = data[i].val[1]

\* the topics of the headings of a document, in the order of the document
HeadingTopics(paras) ==
    LET hs == SelectSeq(paras, LAMBDA para : para.kind = "heading")
    IN  [i \in DOMAIN hs |-> hs[i].topic]

\* C9: the headings of the document are those of the enumerated topics that
\* have at least one entry in the store, each once, in ascending numeric order
\* of topic; a topic absent from the store or with an empty list has none.
C9_HeadingsOnlyForNonEmpty ==
    doc.exists =>
        LET hts == HeadingTopics(doc.paragraphs) IN
        /\ Range(hts) = { k \in Range(DictKeys(topics)) : EntriesOf(data, k) # <<>> }
        /\ \A i, j \in DOMAIN hts : i < j => ParseInt(hts[i]).val < ParseInt(hts[j]).val
        /\ \A h \in DOMAIN doc.paragraphs :
              doc.paragraphs[h].kind = "heading" =>
                  doc.paragraphs[h].name = DictGet(topics, doc.paragraphs[h].topic)

C9_Witness ==
    /\ doc.exists
    /\ DictHas(data, <<"3">>) /\ DictGet(data, <<"3">>) = <<>>
    /\ ~DictHas(data, <<"1">>)
    /\ EntriesOf(data, <<"2">>) # <<>>
    /\ HeadingTopics(doc.paragraphs) = << <<"2">> >>

\* the names of a semicolon-separated field: trimmed, lower-cased, empties dropped
NameSet(field) == { Lower(Strip(part)) : part \in Range(Split(field, ";")) } \ { <<>> }

\* every (topic, index) of a store
Places(d) == UNION { { <<d[i].key, j>> : j \in DOMAIN d[i].val } : i \in DOMAIN d }

EntryAt(d, place) == DictGet(d, place[1])[place[2]]

\* C4: the names searched for are those of the query, split on ';', trimmed
\* and lower-cased; and once the year is read, the matches are exactly the
\* entries, of any topic, whose year is the query year and one of whose names
\* is one of the names searched for (none, and modify_abstract returns).
C4_SearchMatches ==
    [][ /\ (pc = "mod_authors" /\ pc' = "mod_year") =>
              Range(query_authors_list') = NameSet(inp')
        /\ (pc = "mod_year" /\ pc' # "mod_year") =>
              LET found == IF pc' = "menu" THEN <<>> ELSE matches'
                  qyear == ParseInt(inp').val
              IN  /\ \A place \in Places(data) :
                        (place \in Range(found)) <=>
                            /\ EntryAt(data, place).year = qyear
                            /\ NameSet(EntryAt(data, place).authors)
                                  \cap Range(query_authors_list) # {}
                  /\ Range(found) \subseteq Places(data)
                  /\ (pc' = "menu") = (found = <<>>) ]_vars

C4_Witness ==
    /\ pc = "mod_select"
    /\ query_authors_list = << <<"s", "m", "i", "t", "h">> >>
    /\ query_year = 2020
    /\ Len(matches) = 2
    /\ matches[1][1] # matches[2][1]
    /\ \E m \in Range(matches) :
          EntryAt(data, m).authors = <<"S", "M", "I", "T", "H", " ", ";", "L", "e", "e">>

\* the abstract stored by a step in which add_entry or modify_abstract returns
StoredAbstract ==
    IF pc = "add_abstract"
    THEN Last(DictGet(data', topic_choice)).abstract
    ELSE EntryAt(data', chosen).abstract

\* C5, as claimed: the lines "Para one.", "__", "Para two." and END give the
\* abstract "Para one.\nPara two.".
C5_AsClaimed ==
    [][ ((AddReturns \/ ModReturns) /\ LinesRead(inp') = <<ParaOne, <<"_", "_">>, ParaTwo>>)
            => StoredAbstract = ParaOne \o <<"\n">> \o ParaTwo ]_vars

\* C5: the paragraph mark is a backslash and two underscores: the lines
\* "Para one.", "\__", "Para two." and END give the abstract
\* "Para one. \n Para two.", the newline between the spaces that joined the
\* lines; the lines "Para one.", "__", "Para two." give
\* "Para one. __ Para two.".
C5_ParagraphMark ==
    [][ (AddReturns \/ ModReturns) =>
          /\ LinesRead(inp') = <<ParaOne, ParagraphMark, ParaTwo>>
                => StoredAbstract = ParaOne \o <<" ", "\n", " ">> \o ParaTwo
          /\ LinesRead(inp') = <<ParaOne, <<"_", "_">>, ParaTwo>>
                => StoredAbstract = ParaOne \o <<" ", "_", "_", " ">> \o ParaTwo ]_vars

C5_Witness ==
    /\ pc = "menu"
    /\ out = AddedMessage
    /\ LinesRead(inp) = <<ParaOne, ParagraphMark, ParaTwo>>
    /\ \E i \in DOMAIN data :
          /\ data[i].val # <<>>
          /\ Last(data[i].val).abstract = ParaOne \o <<" ", "\n", " ">> \o ParaTwo

\* C6: the entry modify_abstract works on is the only match, or the match
\* whose number was selected, the matches being numbered in the order of the
\* store; and when modify_abstract returns, the store differs from what it
\* was in the abstract of that entry alone, which is the abstract just read.
C6_OverwritesOneAbstract ==
    [][ /\ (pc = "mod_year" /\ pc' = "mod_abstract") =>
              matches' = <<chosen'>>
        /\ (pc = "mod_select" /\ pc' = "mod_abstract") =>
              /\ ParseInt(inp').val \in DOMAIN matches
              /\ chosen' = matches[ParseInt(inp').val]
        /\ (pc' = "mod_select") =>
              /\ Len(matches') > 1
              /\ \A i, j \in DOMAIN matches' : i < j =>
                    \/ DictPos(data, matches'[i][1]) < DictPos(data, matches'[j][1])
                    \/ /\ matches'[i][1] = matches'[j][1]
                       /\ matches'[i][2] < matches'[j][2]
        /\ ModReturns =>
              /\ chosen \in Range(matches)
              /\ DictKeys(data') = DictKeys(data)
              /\ \A i \in DOMAIN data : Len(data'[i].val) = Len(data[i].val)
              /\ \A place \in Places(data) :
                    IF place = chosen
                    THEN EntryAt(data', place) =
                            [EntryAt(data, place) EXCEPT
                                !.abstract = AbstractOf(LinesRead(inp'))]
                    ELSE EntryAt(data', place) = EntryAt(data, place) ]_vars

C6_Witness ==
    /\ pc = "menu"
    /\ out = UpdatedMessage
    /\ \E i \in DOMAIN data :
          /\ Len(data[i].val) = 2
          /\ data[i].val[1].authors = data[i].val[2].authors
          /\ data[i].val[1].year = data[i].val[2].year
          /\ data[i].val[1].abstract # <<"o", "l", "d">>
          /\ data[i].val[2].abstract = AbstractOf(LinesRead(inp))
          /\ data[i].val[1].abstract # data[i].val[2].abstract

\* the invariant of the data model on one record
WellFormed(e) ==
    /\ Strip(e.title) # <<>>
    /\ \A name \in Range(Split(e.authors, ";")) : Strip(name) # <<>>
    /\ Strip(e.abstract) # <<>>

\* C7: every record of the store has a title, author names and an abstract
\* that are not empty once trimmed.
C7_RecordsWellFormed ==
    \A i \in DOMAIN data : \A j \in DOMAIN data[i].val : WellFormed(data[i].val[j])

\* C8: the loop of main ends only at the menu, on the choice "3", which
\* writes neither file; nothing happens after it; an unrecognized choice
\* leaves the program at the menu, and add_entry and modify_abstract end at
\* the menu.
C8_ExitOnlyOnThree ==
    [][ /\ (pc' = "done") => (pc = "menu" /\ Strip(inp') = <<"3">> /\ UNCHANGED Files)
        /\ (pc = "menu" /\ Strip(inp') = <<"3">>) => pc' = "done"
        /\ (pc = "menu" /\ Strip(inp') \notin { <<"1">>, <<"2">>, <<"3">> }) =>
              (pc' = "menu" /\ UNCHANGED Files)
        /\ (pc = "menu" /\ Strip(inp') = <<"1">>) => pc' = "add_topic"
        /\ (pc = "menu" /\ Strip(inp') = <<"2">>) => pc' = "mod_authors"
        /\ (pc \in AddPcs) => pc' \in AddPcs \cup {"menu"}
        /\ (pc \in ModPcs) => pc' \in ModPcs \cup {"menu"}
        /\ (pc = "done") => UNCHANGED vars ]_vars

C8_Witness ==
    /\ pc = "done"
    /\ Strip(inp) = <<"3">>
    /\ TotalEntries(data) = 2
    /\ file = save_data(data)
    /\ doc = update_word_document(data)

\* the prompts of add_entry, in order
AddOrder == <<"add_topic", "add_title", "add_authors", "add_year", "add_journal", "add_abstract">>

AddStep(p) == CHOOSE i \in DOMAIN AddOrder : AddOrder[i] = p

\* the locals of add_entry, in the order of the prompts that set them
AddFields == <<topic_choice, title, authors, year, journal>>

\* what a prompt of add_entry makes of an input it accepts
Accepted(p, line) ==
    IF p = "add_year" THEN ParseInt(Strip(line)).val ELSE Strip(line)

\* whether a prompt of add_entry rejects an input
Rejected(p, line) ==
    CASE p = "add_topic" -> Strip(line) \notin Range(DictKeys(topics))
      [] p = "add_year" -> ~ParseInt(Strip(line)).ok
      [] p = "add_abstract" -> AbstractOf(LinesRead(line)) = <<>>
      [] OTHER -> Strip(line) = <<>>

\* C10: in add_entry, an input is rejected exactly when it is an unknown
\* topic, an empty title, authors or journal, a year that is no number, or an
\* abstract that comes out empty; a rejected input leaves the program at the
\* same prompt with the store, both files and every field collected so far
\* unchanged; an accepted one sets its own field only and moves to the next
\* prompt; and the record appended is made of the fields so collected.
C10_RejectedInputsKeepFields ==
    [][ (pc \in AddPcs) =>
          IF Rejected(pc, inp')
          THEN pc' = pc /\ UNCHANGED <<Files, AddLocals>>
          ELSE IF pc # "add_abstract"
          THEN /\ pc' = AddOrder[AddStep(pc) + 1]
               /\ AddFields'[AddStep(pc)] = Accepted(pc, inp')
               /\ \A f \in DOMAIN AddFields :
                     f # AddStep(pc) => AddFields'[f] = AddFields[f]
               /\ UNCHANGED Files
          ELSE /\ pc' = "menu"
               /\ Last(DictGet(data', topic_choice)) =
                     [title |-> title, authors |-> authors, year |-> year,
                      journal |-> journal, abstract |-> AbstractOf(LinesRead(inp'))] ]_vars

C10_Witness ==
    /\ pc = "add_abstract"
    /\ out = "Abstract cannot be empty. Please try again."
    /\ topic_choice = <<"1">>
    /\ title = <<"A">>
    /\ authors = <<"s", "m", "i", "t", "h">>
    /\ year = 2019
    /\ journal = <<"J">>
    /\ TotalEntries(data) = 1
    /\ file = save_data(data)

====
